---- MODULE Spec2Model ----
(***************************************************************************)
(* Cherrywood Apartments nuisance reporting (src/app.py).                  *)
(*                                                                         *)
(* Every browser session runs the Streamlit script main() from top to      *)
(* bottom on each interaction.  The sessions share one file, reports.csv,  *)
(* which save_report rewrites as a whole (read, concat, write) and which   *)
(* the dashboard reads as a whole.  The model follows one script run per   *)
(* session step by step; every access to the file is a step of its own,   *)
(* so that the runs of several sessions interleave where the operating     *)
(* system lets them, and the clock may advance between any two steps.      *)
(*                                                                         *)
(* DataFrame.to_csv(path) opens the file for writing, which truncates it   *)
(* at once, and hands the text to the file when it closes it: a store of   *)
(* a few rows is far below the 8 KiB buffer, so the write is the two       *)
(* steps "open" and "flush".  Each writer writes at its own offset 0; a    *)
(* flush over a file that another writer filled in the meantime replaces   *)
(* its first lines and leaves the lines beyond (lines are taken to be of   *)
(* equal length here).                                                     *)
(***************************************************************************)
EXTENDS Naturals, Sequences, FiniteSets

\* ------------------------------------------------------------------ bounds
NumSessions == 2        \* browser sessions running the script
MaxSubmissions == 2     \* submissions appended or under way
MaxClock == 2           \* last clock reading, in ticks
TicksPerSecond == 2     \* clock ticks per second of strftime's precision

Sessions == 1 .. NumSessions

\* ----------------------------------------------------------- configuration
TENANT_USERNAME == "tenant"
TENANT_PASSWORD == "password123"

\* What a user may type into the login form.
Credentials ==
    { [username |-> "tenant", password |-> "password123"],
      [username |-> "tenant", password |-> "letmein"] }

\* The three delivery-configuration values read from the environment: each is
\* the empty string (the getenv default) or set.
ConfigValues == {"", "set"}
Configs == [SENDER_EMAIL : ConfigValues, SENDER_PASSWORD : ConfigValues,
            SECURITY_EMAIL : ConfigValues]

\* A faulty variant of IssueTypeOptions: the selectbox offers one more option.
IssueTypeOptionsExtra == {"Car Alarm", "Noise Complaint", "Other", "Fire Alarm"}

\* st.selectbox("Issue Type *", [...]): the only values the form can yield.
IssueTypeOptions == {"Car Alarm", "Noise Complaint", "Other"}

\* What a tenant may type into the two free-text inputs, Location and
\* Description.
PlainTexts == [location |-> "Building 2", description |-> "Loud music"]
TextInputs ==
    { [location |-> "", description |-> "Loud music"],
      [location |-> "Building 2", description |-> ""],
      PlainTexts,
      [location |-> "007", description |-> " "],
      [location |-> "N/A", description |-> "N/A"] }

\* The selectbox as rendered shows its first option.
DefaultOption == "Car Alarm"

\* What a tenant may submit: every option with the plain texts, and the
\* option the form shows with every pair of texts.
Forms ==
    { [issue_type |-> o, location |-> x.location, description |-> x.description] :
        <<o, x>> \in { y \in IssueTypeOptions \X TextInputs :
                          y[1] = DefaultOption \/ y[2] = PlainTexts } }

Pages == {"Submit Report", "View Dashboard"}

\* ------------------------------------------------------------------ pandas
\* Strings pandas.read_csv takes for a missing value (its default na_values,
\* restricted to the strings of this model).
NaValues == {"", "N/A"}
\* Texts read_csv parses as an integer, and as a float.
IntTexts == {"007", "7"}
FloatTexts == {"7.0"}
\* How to_csv writes the integer, and the float, those texts stand for.
IntRepr(c) == "7"
FloatRepr(c) == "7.0"

\* The dtype read_csv infers for a column from its texts.
ColumnDtype(col) ==
    LET present == { i \in DOMAIN col : col[i] \notin NaValues }
    IN  IF present = {} THEN "float64"
        ELSE IF \A i \in DOMAIN col : col[i] \in IntTexts THEN "int64"
        ELSE IF \A i \in present : col[i] \in IntTexts \cup FloatTexts THEN "float64"
        ELSE "object"

\* One cell as read_csv returns it, in a column of the given dtype.
ParseCell(c, dtype) ==
    IF c \in NaValues THEN [t |-> "nan", v |-> ""]
    ELSE IF dtype = "int64" THEN [t |-> "int", v |-> IntRepr(c)]
    ELSE IF dtype = "float64" THEN [t |-> "float", v |-> FloatRepr(c)]
    ELSE [t |-> "str", v |-> c]

\* A cell of a frame built from Python strings (new_report).
StrCell(c) == [t |-> "str", v |-> c]

\* One cell as to_csv writes it: a missing value as the empty string.
WriteCell(cell) == IF cell.t = "nan" THEN "" ELSE cell.v

Column(rows, f) == [i \in DOMAIN rows |-> rows[i][f]]

\* pd.read_csv: the rows of the file as a frame.  The Timestamp column holds
\* strftime's fixed format, which is neither a missing value nor a number: it
\* is read as it was written.
PdReadCsv(rows) ==
    LET dt(f) == ColumnDtype(Column(rows, f))
    IN  [i \in DOMAIN rows |->
            [Timestamp |-> rows[i].Timestamp,
             IssueType |-> ParseCell(rows[i].IssueType, dt("IssueType")),
             Description |-> ParseCell(rows[i].Description, dt("Description")),
             Location |-> ParseCell(rows[i].Location, dt("Location")),
             Status |-> ParseCell(rows[i].Status, dt("Status"))]]

\* DataFrame.to_csv(index=False): the frame as rows of text.
ToCsv(df) ==
    [i \in DOMAIN df |->
        [Timestamp |-> df[i].Timestamp,
         IssueType |-> WriteCell(df[i].IssueType),
         Description |-> WriteCell(df[i].Description),
         Location |-> WriteCell(df[i].Location),
         Status |-> WriteCell(df[i].Status)]]

\* datetime.now().strftime("%Y-%m-%d %H:%M:%S"): the clock cut to the second.
Strftime(now) == now \div TicksPerSecond

\* new_report of save_report: the one-row frame of the submission.
NewReport(timestamp, issue_type, description, location) ==
    << [Timestamp |-> timestamp,
        IssueType |-> StrCell(issue_type),
        Description |-> StrCell(description),
        Location |-> StrCell(location),
        Status |-> StrCell("Pending")] >>

\* pd.concat([df, new_report], ignore_index=True)
PdConcat(df, new_report) == df \o new_report

\* -------------------------------------------------------------- the file
NoFile == [exists |-> FALSE, header |-> FALSE, rows |-> << >>]
\* open(REPORTS_FILE, "w"): the file exists and is empty.
Truncated == [exists |-> TRUE, header |-> FALSE, rows |-> << >>]
\* The buffered text reaches the file, at the writer's offset 0.
Flushed(f, rows) ==
    [exists |-> TRUE, header |-> TRUE,
     rows |-> rows \o SubSeq(f.rows, Len(rows) + 1, Len(f.rows))]


\* ------------------------------------------------------------------ state
VARIABLES
    file,        \* reports.csv: whether it exists, has its header line, its rows
    clock,       \* datetime.now(), in ticks
    cfg,         \* SENDER_EMAIL, SENDER_PASSWORD, SECURITY_EMAIL
    appended,    \* history: how many times save_report has returned
    pc,          \* where each session's script run stands ("idle": rendered)
    logged_in,   \* st.session_state.logged_in
    page,        \* the sidebar radio
    click,       \* the widget that triggered this run
    cred,        \* the login form's inputs
    form,        \* the report form's inputs
    stamp,       \* save_report's timestamp, << >> before it is taken
    text,        \* the rows read_csv found in the file, before it parses them
    df,          \* the frame a run holds (save_report's, the dashboard's)
    message,     \* send_email_alert's message, << >> before it is composed
    ui           \* what the run has put on the page

vars == << file, clock, cfg, appended, pc, logged_in, page, click, cred, form,
           stamp, text, df, message, ui >>

NoCred == [username |-> "", password |-> ""]
\* The report form as rendered: the first option, two empty inputs.
NoForm == [issue_type |-> DefaultOption, location |-> "", description |-> ""]

Init ==
    /\ file = NoFile
    /\ clock = 0
    /\ cfg \in Configs
    /\ appended = 0
    /\ pc = [s \in Sessions |-> "idle"]
    /\ logged_in = [s \in Sessions |-> FALSE]
    /\ page = [s \in Sessions |-> "Submit Report"]
    /\ click = [s \in Sessions |-> "none"]
    /\ cred = [s \in Sessions |-> NoCred]
    /\ form = [s \in Sessions |-> NoForm]
    /\ stamp = [s \in Sessions |-> << >>]
    /\ text = [s \in Sessions |-> << >>]
    /\ df = [s \in Sessions |-> << >>]
    /\ message = [s \in Sessions |-> << >>]
    /\ ui = [s \in Sessions |-> {}]

\* ------------------------------------------------------------ interactions
\* A widget event starts a run of the script from the top; what the previous
\* run rendered is gone.
Rerun(s, widget, c, f) ==
    /\ pc' = [pc EXCEPT ![s] = "init_check"]
    /\ click' = [click EXCEPT ![s] = widget]
    /\ cred' = [cred EXCEPT ![s] = c]
    /\ form' = [form EXCEPT ![s] = f]
    /\ ui' = [ui EXCEPT ![s] = {}]
    /\ UNCHANGED << file, clock, cfg, appended, logged_in, stamp, text, df, message >>

\* A run ends: the page shows `shown`, the widgets' events are consumed and
\* the values the script held are dropped.
Rendered(s, shown) ==
    /\ pc' = [pc EXCEPT ![s] = "idle"]
    /\ ui' = [ui EXCEPT ![s] = shown]
    /\ click' = [click EXCEPT ![s] = "none"]
    /\ cred' = [cred EXCEPT ![s] = NoCred]
    /\ form' = [form EXCEPT ![s] = NoForm]
    /\ stamp' = [stamp EXCEPT ![s] = << >>]
    /\ text' = [text EXCEPT ![s] = << >>]
    /\ df' = [df EXCEPT ![s] = << >>]
    /\ message' = [message EXCEPT ![s] = << >>]
    /\ UNCHANGED << clock, cfg, appended, logged_in, page >>

\* The run goes on to `next`, holding what it held.
Goto(s, next) ==
    /\ pc' = [pc EXCEPT ![s] = next]
    /\ UNCHANGED << clock, cfg, logged_in, page, click, cred, form, ui >>

\* Submissions under way: the report form was submitted and the run goes on.
InFlight == { s \in Sessions : click[s] = "submit" /\ pc[s] # "idle" }

ClickLogin(s) ==
    /\ pc[s] = "idle" /\ ~logged_in[s]
    /\ \E c \in Credentials : Rerun(s, "login", c, NoForm)
    /\ UNCHANGED page

ClickLogout(s) ==
    /\ pc[s] = "idle" /\ logged_in[s]
    /\ Rerun(s, "logout", NoCred, NoForm)
    /\ UNCHANGED page

SelectPage(s) ==
    /\ pc[s] = "idle" /\ logged_in[s]
    /\ \E p \in Pages : page' = [page EXCEPT ![s] = p]
    /\ Rerun(s, "none", NoCred, NoForm)

ClickSubmit(s) ==
    /\ pc[s] = "idle" /\ logged_in[s] /\ page[s] = "Submit Report"
    /\ appended + Cardinality(InFlight) < MaxSubmissions
    /\ \E f \in Forms : Rerun(s, "submit", NoCred, f)
    /\ UNCHANGED page

Tick ==
    /\ clock < MaxClock
    /\ clock' = clock + 1
    /\ UNCHANGED << file, cfg, appended, pc, logged_in, page, click, cred, form,
                    stamp, text, df, message, ui >>

\* ---------------------------------------------------------- initialize_csv
\* A faulty variant of initialize_csv: the file is created whether it is there or not.
initialize_csv_unconditional(s) ==
    /\ pc[s] = "init_check"
    /\ Goto(s, "init_open")
    /\ UNCHANGED << file, appended, stamp, text, df, message >>

\* Line 79: the file is created only when it is not there.
initialize_csv(s) ==
    /\ pc[s] = "init_check"
    /\ Goto(s, IF file.exists THEN "main" ELSE "init_open")
    /\ UNCHANGED << file, appended, stamp, text, df, message >>

\* Line 83, to_csv opening the file.
initialize_csv_open(s) ==
    /\ pc[s] = "init_open"
    /\ file' = Truncated
    /\ Goto(s, "init_flush")
    /\ UNCHANGED << appended, stamp, text, df, message >>

\* Line 83, to_csv closing the file: the header line and no row.
initialize_csv_flush(s) ==
    /\ pc[s] = "init_flush"
    /\ file' = Flushed(file, << >>)
    /\ Goto(s, "main")
    /\ UNCHANGED << appended, stamp, text, df, message >>

\* -------------------------------------------------------------------- main
\* st.rerun(): the script starts again from the top, the event consumed.
StRerun(s) ==
    /\ pc' = [pc EXCEPT ![s] = "init_check"]
    /\ click' = [click EXCEPT ![s] = "none"]
    /\ UNCHANGED << file, clock, cfg, appended, page, cred, form, stamp, text,
                    df, message, ui >>

login_page(s) ==
    /\ pc[s] = "main" /\ ~logged_in[s]
    /\ IF click[s] = "login" /\ cred[s].username = TENANT_USERNAME
                             /\ cred[s].password = TENANT_PASSWORD
       THEN /\ logged_in' = [logged_in EXCEPT ![s] = TRUE]
            /\ StRerun(s)
       ELSE /\ Rendered(s, IF click[s] = "login" THEN {"login_error"} ELSE {})
            /\ UNCHANGED file

main_logout(s) ==
    /\ pc[s] = "main" /\ logged_in[s] /\ click[s] = "logout"
    /\ logged_in' = [logged_in EXCEPT ![s] = FALSE]
    /\ StRerun(s)

\* tenant_interface's check of the submitted form: `not location or not
\* description` is true of the empty string only.
Invalid(f) == f.location = "" \/ f.description = ""

tenant_interface(s) ==
    /\ pc[s] = "main" /\ logged_in[s] /\ click[s] # "logout"
    /\ page[s] = "Submit Report"
    /\ IF click[s] # "submit" THEN Rendered(s, {})
       ELSE IF Invalid(form[s]) THEN Rendered(s, {"validation_error"})
       ELSE /\ Goto(s, "save_read")
            /\ UNCHANGED << appended, stamp, text, df, message >>
    /\ UNCHANGED file

\* ------------------------------------------------------------- save_report
\* Lines 95-109: the timestamp, the new frame, the file read and the concat.
\* read_csv raises EmptyDataError on a file without a header line.
save_report_read(s) ==
    /\ pc[s] = "save_read"
    /\ LET timestamp == Strftime(clock)
           new_report == NewReport(timestamp, form[s].issue_type,
                                   form[s].description, form[s].location)
       IN  IF file.exists /\ ~file.header
           THEN Rendered(s, {"exception"})
           ELSE /\ stamp' = [stamp EXCEPT ![s] = << timestamp >>]
                /\ text' = [text EXCEPT ![s] = file.rows]
                /\ df' = [df EXCEPT ![s] =
                             IF file.exists
                             THEN PdConcat(PdReadCsv(file.rows), new_report)
                             ELSE new_report]
                /\ Goto(s, "save_open")
                /\ UNCHANGED << appended, message >>
    /\ UNCHANGED file

\* Line 111, to_csv opening the file.
save_report_open(s) ==
    /\ pc[s] = "save_open"
    /\ file' = Truncated
    /\ Goto(s, "save_flush")
    /\ UNCHANGED << appended, stamp, text, df, message >>

\* Line 111, to_csv closing the file; save_report returns.
save_report_flush(s) ==
    /\ pc[s] = "save_flush"
    /\ file' = Flushed(file, ToCsv(df[s]))
    /\ appended' = appended + 1
    /\ df' = [df EXCEPT ![s] = << >>]
    /\ Goto(s, "notify")
    /\ UNCHANGED << stamp, text, message >>

\* A faulty variant of save_report_raise: the failure is swallowed and the submission
\* goes on to the notifier.
save_report_raise_swallowed(s) ==
    /\ pc[s] \in {"save_read", "save_open"}
    /\ Goto(s, "notify")
    /\ UNCHANGED << file, appended, stamp, text, df, message >>

\* The medium fails: read_csv, or to_csv's open, raises OSError.  Nothing in
\* tenant_interface or main catches it, and the run ends with the exception.
save_report_raise(s) ==
    /\ pc[s] \in {"save_read", "save_open"}
    /\ Rendered(s, {"exception"})
    /\ UNCHANGED file

\* -------------------------------------------------------- send_email_alert
\* A faulty variant of ConfigMissing: `and` for `or`.
ConfigMissingAll(c) ==
    c.SENDER_EMAIL = "" /\ c.SENDER_PASSWORD = "" /\ c.SECURITY_EMAIL = ""

\* Line 127: `not SENDER_EMAIL or not SENDER_PASSWORD or not SECURITY_EMAIL`.
ConfigMissing(c) ==
    c.SENDER_EMAIL = "" \/ c.SENDER_PASSWORD = "" \/ c.SECURITY_EMAIL = ""

\* The steps of the `with smtplib.SMTP(...)` block, in order.
SmtpSteps == << "smtp_connect", "smtp_starttls", "smtp_login", "smtp_send" >>
SmtpPcs == { SmtpSteps[i] : i \in DOMAIN SmtpSteps }

\* What tenant_interface renders after send_email_alert has returned.
Submitted(email_sent) ==
    {"success"} \cup (IF email_sent THEN {"email_info"} ELSE {"email_warning"})

\* A faulty variant of send_email_alert: the body's time is the one taken when the
\* module was loaded.
send_email_alert_load_time(s) ==
    /\ pc[s] = "notify"
    /\ IF ConfigMissing(cfg)
       THEN Rendered(s, Submitted(FALSE))
       ELSE /\ message' = [message EXCEPT ![s] =
                  << [Subject |-> form[s].issue_type,
                      IssueType |-> form[s].issue_type,
                      Location |-> form[s].location,
                      Time |-> Strftime(0),
                      Description |-> form[s].description] >>]
            /\ Goto(s, "smtp_connect")
            /\ UNCHANGED << appended, stamp, text, df >>
    /\ UNCHANGED file

\* Lines 127-155: the configuration check, then the message; its body takes
\* the time from a clock reading of its own.
send_email_alert(s) ==
    /\ pc[s] = "notify"
    /\ IF ConfigMissing(cfg)
       THEN Rendered(s, Submitted(FALSE))
       ELSE /\ message' = [message EXCEPT ![s] =
                  << [Subject |-> form[s].issue_type,
                      IssueType |-> form[s].issue_type,
                      Location |-> form[s].location,
                      Time |-> Strftime(clock),
                      Description |-> form[s].description] >>]
            /\ Goto(s, "smtp_connect")
            /\ UNCHANGED << appended, stamp, text, df >>
    /\ UNCHANGED file

\* One step of lines 158-161 succeeds; after the last the function returns
\* True and tenant_interface renders the outcome.
smtp_step(s) ==
    /\ pc[s] \in SmtpPcs
    /\ LET i == CHOOSE k \in DOMAIN SmtpSteps : SmtpSteps[k] = pc[s]
       IN  IF i < Len(SmtpSteps)
           THEN /\ Goto(s, SmtpSteps[i + 1])
                /\ UNCHANGED << appended, stamp, text, df, message >>
           ELSE Rendered(s, Submitted(TRUE))
    /\ UNCHANGED file

\* A faulty variant of smtp_fail: the exception leaves send_email_alert.
smtp_fail_raises(s) ==
    /\ pc[s] \in SmtpPcs
    /\ Rendered(s, {"exception"})
    /\ UNCHANGED file

\* One step of lines 158-161 raises: line 164 catches it, st.error shows it
\* and the function returns False.
smtp_fail(s) ==
    /\ pc[s] \in SmtpPcs
    /\ Rendered(s, {"email_error"} \cup Submitted(FALSE))
    /\ UNCHANGED file

\* ---------------------------------------------------- management_dashboard
\* Lines 249-273.  The frame is rendered and dropped with the run.
management_dashboard(s) ==
    /\ pc[s] = "main" /\ logged_in[s] /\ click[s] # "logout"
    /\ page[s] = "View Dashboard"
    /\ IF ~file.exists THEN Rendered(s, {"no_reports"})
       ELSE IF ~file.header THEN Rendered(s, {"exception"})
       ELSE IF Len(PdReadCsv(file.rows)) > 0 THEN Rendered(s, {"table"})
       ELSE Rendered(s, {"no_reports"})
    /\ UNCHANGED file

\* ------------------------------------------------------------ specification
Step(s) ==
    \/ ClickLogin(s)
    \/ ClickLogout(s)
    \/ SelectPage(s)
    \/ ClickSubmit(s)
    \/ initialize_csv(s)
    \/ initialize_csv_open(s)
    \/ initialize_csv_flush(s)
    \/ login_page(s)
    \/ main_logout(s)
    \/ tenant_interface(s)
    \/ save_report_read(s)
    \/ save_report_open(s)
    \/ save_report_flush(s)
    \/ save_report_raise(s)
    \/ send_email_alert(s)
    \/ smtp_step(s)
    \/ smtp_fail(s)
    \/ management_dashboard(s)

Next == Tick \/ \E s \in Sessions : Step(s)

\* Any number of sessions, interleaved step by step.
Spec == Init /\ [][Next]_vars

\* One session alone: no other writer or reader of the file.
Solo == CHOOSE s \in Sessions : TRUE
NextSolo == Tick \/ Step(Solo)
SpecSolo == Init /\ [][NextSolo]_vars


\* ------------------------------------------------------------------ claims
NotifierPcs == {"notify"} \cup SmtpPcs
\* The row of the report the run of session s submits, as text.
SubmittedRow(s) ==
    ToCsv(NewReport(stamp[s][1], form[s].issue_type, form[s].description,
                    form[s].location))[1]
\* str.strip() on the texts of this model.
Strip(c) == IF c = " " THEN "" ELSE c

\* C1: when every session has submitted a report and every run has ended
\* with the submission reported as submitted, the store, empty before, holds
\* exactly one record for each append that returned: none is lost, none is
\* duplicated.
C1_NoneLostNoneDuplicated ==
    (\A s \in Sessions : pc[s] = "idle" /\ "success" \in ui[s])
    => Len(file.rows) = appended

\* C2: when save_report returns, the store is the sequence of records it read
\* with the submitted record, status "Pending", added at the end.
C2_AppendsExactlyOne ==
    \A s \in Sessions :
        pc[s] = "notify" => file.rows = text[s] \o << SubmittedRow(s) >>

\* C3: a submission whose description or location is empty or whitespace
\* only never reaches save_report or send_email_alert.
C3_BlankRejected ==
    \A s \in Sessions :
        (click[s] = "submit"
            /\ (Strip(form[s].location) = "" \/ Strip(form[s].description) = ""))
        => pc[s] \in {"init_check", "init_open", "init_flush", "main"}

C5_NotifierNeverReverses ==
    [][\A s \in Sessions :
          (pc[s] \in NotifierPcs /\ pc'[s] # pc[s])
          => /\ file' = file
             /\ pc'[s] = "idle" =>
                   /\ "success" \in ui'[s]
                   /\ "exception" \notin ui'[s]
                   /\ "email_info" \in ui'[s] => pc[s] = "smtp_send"
                   /\ ("email_warning" \in ui'[s]) = ("email_info" \notin ui'[s])]_vars
C5_Witness ==
    \E s \in Sessions :
        /\ ui[s] = {"email_error", "success", "email_warning"}
        /\ Len(file.rows) = 1

\* C6: initialize_csv called on a store that exists returns at once and
\* leaves the file as it is, and no step of initialize_csv changes the
\* sequence of persisted records.
C6_InitializeKeepsStore ==
    [][\A s \in Sessions :
          /\ (pc[s] = "init_check" /\ pc'[s] # pc[s] /\ file.exists)
             => (pc'[s] = "main" /\ file' = file)
          /\ (pc[s] \in {"init_check", "init_open", "init_flush"} /\ pc'[s] # pc[s])
             => file'.rows = file.rows]_vars
C6_Witness ==
    \E s \in Sessions :
        /\ pc[s] = "main" /\ logged_in[s]
        /\ Len(file.rows) = 2

\* C7: the notifier runs only when save_report has returned, with the
\* submitted record the last of the store; a run that ended with an
\* exception does not report success.
C7_NotifyOnlyAfterAppend ==
    \A s \in Sessions :
        /\ pc[s] \in NotifierPcs =>
              /\ stamp[s] # << >>
              /\ file.header
              /\ file.rows # << >>
              /\ file.rows[Len(file.rows)] = SubmittedRow(s)
        /\ "exception" \in ui[s] => "success" \notin ui[s]
C7_Witness ==
    \E s \in Sessions :
        /\ pc[s] = "idle" /\ page[s] = "Submit Report"
        /\ ui[s] = {"exception"}
        /\ Len(file.rows) = 1

\* C8: a run stands in the SMTP block, or holds a composed message, only
\* when all three delivery-configuration values are non-empty; with one of
\* them empty a submission ends as not delivered, with no transport error.
C8_NoConnectionWithoutConfig ==
    LET complete == cfg.SENDER_EMAIL # "" /\ cfg.SENDER_PASSWORD # ""
                        /\ cfg.SECURITY_EMAIL # ""
    IN  \A s \in Sessions :
            /\ (pc[s] \in SmtpPcs \/ message[s] # << >>) => complete
            /\ ("success" \in ui[s] /\ ~complete)
               => ui[s] = {"success", "email_warning"}
C8_Witness ==
    \E s \in Sessions :
        /\ cfg.SENDER_EMAIL # "" /\ cfg.SENDER_PASSWORD # ""
        /\ cfg.SECURITY_EMAIL = ""
        /\ ui[s] = {"success", "email_warning"}

\* C9: a dashboard read made while an append is under way finds the store
\* with its header and with exactly the history the append read, or exactly
\* that history and the appended record.
C9_ConsistentSnapshot ==
    [][\A s \in Sessions :
          (pc[s] = "main" /\ logged_in[s] /\ click[s] # "logout"
              /\ page[s] = "View Dashboard" /\ pc'[s] = "idle")
          => \A r \in Sessions :
                pc[r] \in {"save_open", "save_flush"}
                => /\ file.header
                   /\ file.rows \in {text[r], text[r] \o << SubmittedRow(r) >>}]_vars

====
